---- MODULE Spec2Model ----
(***************************************************************************)
(* Model of scrape_bospop_faq.py: the FAQ extraction and cleaning          *)
(* (scrape_bospop_faq), the JSON cache (save_data_to_file,                 *)
(* load_data_from_file) and the Streamlit session (initialize_session_     *)
(* state, the "Update FAQ Data" button of main).                           *)
(*                                                                         *)
(* Text is a sequence of one-character strings, so that str.strip and the  *)
(* regex replacement of \s+ are computed rather than assumed.  A value     *)
(* that may be None is a record with a kind field.                         *)
(***************************************************************************)
EXTENDS Naturals, Sequences, FiniteSets

VARIABLES
    web,        \* what GET https://bospop.nl/faq/ answers at the moment
    scraped,    \* the value the last call of scrape_bospop_faq returned
    file,       \* data/faq_cache.json
    session,    \* st.session_state: faq_data and last_update
    clock,      \* datetime.now(), in seconds
    message,    \* the st.error / st.success box the last run of main showed
    op,         \* the operation that made the last step
    shown,      \* per cause of an empty refresh, the message this session last saw
    lastLoad,   \* the last call of load_data_from_file: its file and its result
    lastSaved   \* the arguments of the last save_data_to_file that returned,
                \* while the file is still the one it wrote

vars == <<web, scraped, file, session, clock, message, op, shown, lastLoad, lastSaved>>

(***************************************************************************)
(* Bounds of the model.                                                    *)
(***************************************************************************)
MaxNodes == 3    \* headings and accordion containers in a document
MaxItems == 2    \* items in one accordion container
MaxClock == 1    \* seconds the clock may advance

(***************************************************************************)
(* Text.                                                                   *)
(***************************************************************************)
Whitespace == {" ", "\n"}

isspace(c) == c \in Whitespace

RECURSIVE lstrip(_)
lstrip(s) ==
    IF s = <<>> THEN s
    ELSE IF isspace(Head(s)) THEN lstrip(Tail(s)) ELSE s

RECURSIVE rstrip(_)
rstrip(s) ==
    IF s = <<>> THEN s
    ELSE IF isspace(s[Len(s)]) THEN rstrip(SubSeq(s, 1, Len(s) - 1)) ELSE s

\* str.strip()
strip(s) == rstrip(lstrip(s))

\* str.replace('\s+', ' ', regex=True): every maximal run of whitespace
\* becomes one space
RECURSIVE replace_ws(_)
replace_ws(s) ==
    IF s = <<>> THEN <<>>
    ELSE IF isspace(Head(s)) THEN <<" ">> \o replace_ws(lstrip(Tail(s)))
    ELSE <<Head(s)>> \o replace_ws(Tail(s))

\* Tag.get_text(strip=True): the node's strings, each stripped, the empty
\* ones left out, joined with no separator
RECURSIVE get_text_strip(_)
get_text_strip(strings) ==
    IF strings = <<>> THEN <<>>
    ELSE strip(Head(strings)) \o get_text_strip(Tail(strings))

(***************************************************************************)
(* The document: its category headings (h2.elementor-heading-title) and    *)
(* accordion containers (div.jupiterx-advanced-accordion-wrapper) in       *)
(* document order.  An item (div.jupiterx-single-advanced-accordion-       *)
(* wrapper) has an optional title node (span.jx-ac-title) with its text    *)
(* and an optional content node (div.jupiterx-ac-content-is-editor) with   *)
(* its strings.                                                            *)
(***************************************************************************)
NoNode == [present |-> FALSE]
TitleNode(t) == [present |-> TRUE, text |-> t]
ContentNode(ss) == [present |-> TRUE, strings |-> ss]

Heading(t) == [tag |-> "h2", text |-> t]
Accordion(items) == [tag |-> "accordion", items |-> items]

None == [kind |-> "None"]
Columns == <<"Category", "Question", "Answer">>
DataFrame(index, rows) ==
    [kind |-> "DataFrame", columns |-> Columns, index |-> index, rows |-> rows]

\* find_next('div', class_='jupiterx-advanced-accordion-wrapper') from the
\* heading at position i: the first container after i in the document, 0
\* when there is none
find_next(doc, i) ==
    LET later == {j \in (i + 1)..Len(doc) : doc[j].tag = "accordion"}
    IN  IF later = {} THEN 0
        ELSE CHOOSE j \in later : \A k \in later : j <= k

\* The loop over the items of one container (lines 75-89): the rows it
\* appends, or the AttributeError of None.text at an item with no title
RECURSIVE item_rows(_, _)
item_rows(category, items) ==
    IF items = <<>> THEN [exc |-> FALSE, rows |-> <<>>]
    ELSE LET item == Head(items)
             rest == item_rows(category, Tail(items))
         IN  IF ~item.title.present \/ rest.exc
                 THEN [exc |-> TRUE, rows |-> <<>>]
             ELSE LET question == strip(item.title.text)
                      answer == IF item.content.present
                                    THEN get_text_strip(item.content.strings)
                                    ELSE <<>>
                  IN  [exc |-> FALSE,
                       rows |-> <<[Category |-> category,
                                   Question |-> question,
                                   Answer |-> answer]>> \o rest.rows]

\* One round of the loop over the category headings (lines 66-89)
heading_rows(doc, i) ==
    LET category == strip(doc[i].text)
        accordion_container == find_next(doc, i)
    IN  IF accordion_container # 0
            THEN item_rows(category, doc[accordion_container].items)
        ELSE [exc |-> FALSE, rows |-> <<>>]

\* The loop over soup.find_all('h2', ...), from position i on
RECURSIVE extract_from(_, _)
extract_from(doc, i) ==
    IF i > Len(doc) THEN [exc |-> FALSE, rows |-> <<>>]
    ELSE IF doc[i].tag # "h2" THEN extract_from(doc, i + 1)
    ELSE LET here == heading_rows(doc, i)
             rest == extract_from(doc, i + 1)
         IN  IF here.exc \/ rest.exc THEN [exc |-> TRUE, rows |-> <<>>]
             ELSE [exc |-> FALSE, rows |-> here.rows \o rest.rows]

extract(doc) == extract_from(doc, 1)

(***************************************************************************)
(* The cleaning of lines 91-98.                                            *)
(***************************************************************************)
RangeIndex(n) == [k \in 1..n |-> k - 1]

\* A missing value (NaN / None) of a column; no text is equal to it
NA == <<"NaN">>
isna(v) == v = NA

\* the rows of df at the positions in keep, from position k on, with their
\* index labels
RECURSIVE take(_, _, _)
take(df, keep, k) ==
    IF k > Len(df.rows) THEN DataFrame(<<>>, <<>>)
    ELSE LET rest == take(df, keep, k + 1)
         IN  IF k \in keep
                 THEN DataFrame(<<df.index[k]>> \o rest.index,
                                <<df.rows[k]>> \o rest.rows)
             ELSE rest

\* df.dropna(subset=['Question', 'Answer'])
dropna(df) ==
    take(df,
         {k \in 1..Len(df.rows) :
             ~isna(df.rows[k].Question) /\ ~isna(df.rows[k].Answer)},
         1)

\* df.drop_duplicates(): the first of equal rows is kept
drop_duplicates(df) ==
    take(df,
         {k \in 1..Len(df.rows) : \A j \in 1..(k - 1) : df.rows[j] # df.rows[k]},
         1)

\* df[col].str.strip().str.replace('\s+', ' ', regex=True), every column
normalize_text(df) ==
    LET norm(s) == replace_ws(strip(s))
    IN  DataFrame(df.index,
                  [k \in 1..Len(df.rows) |->
                      [Category |-> norm(df.rows[k].Category),
                       Question |-> norm(df.rows[k].Question),
                       Answer |-> norm(df.rows[k].Answer)]])

clean(rows) ==
    normalize_text(drop_duplicates(dropna(DataFrame(RangeIndex(Len(rows)), rows))))

\* requests.get(..., timeout=10) and raise_for_status(): a
\* RequestException unless the answer is a 2xx
Failures == {"timeout", "connection_error", "http_error"}
Failed(st) == [status |-> st, doc |-> <<>>]
Page(doc) == [status |-> "ok", doc |-> doc]

scrape_bospop_faq(response) ==
    IF response.status # "ok" THEN None
    ELSE LET data == extract(response.doc)
         IN  IF data.exc THEN None ELSE clean(data.rows)

(***************************************************************************)
(* The cache file.  Its content is absent, unreadable (open or the UTF-8   *)
(* decoding raises), text that is no JSON, or a JSON object with some of   *)
(* the keys faq_data and last_update.                                      *)
(***************************************************************************)
Timestamp(t) == [kind |-> "str", at |-> t]

\* datetime.now().strftime("%Y-%m-%d %H:%M:%S"): the clock to the second
strftime(now) == Timestamp(now)

AbsentFile == [kind |-> "absent"]
UnreadableFile == [kind |-> "unreadable"]
TextFile == [kind |-> "text"]
JsonFile(keys, faq_data, last_update) ==
    [kind |-> "json", keys |-> keys, faq_data |-> faq_data, last_update |-> last_update]

\* df.to_dict(orient='records'): one dict per row, in row order; the index
\* and the column list are not part of it
to_dict_records(df) == df.rows

\* pd.DataFrame(list of dicts): the columns are the keys of the dicts (none
\* when the list is empty), the index is a fresh RangeIndex
from_records(records) ==
    [kind |-> "DataFrame",
     columns |-> IF records = <<>> THEN <<>> ELSE Columns,
     index |-> RangeIndex(Len(records)),
     rows |-> records]

\* save_data_to_file opened the file with 'a' instead of 'w'
save_data_to_file_append(f, df, timestamp, disk_ok) ==
    IF ~disk_ok THEN [raised |-> TRUE, file |-> f]
    ELSE IF f.kind = "absent"
        THEN [raised |-> FALSE,
              file |-> JsonFile({"faq_data", "last_update"}, to_dict_records(df), timestamp)]
    ELSE [raised |-> FALSE, file |-> TextFile]

\* save_data_to_file (lines 150-165).  disk_ok: mkdir and open succeed; when
\* they do not, the exception is logged and raised again
save_data_to_file(f, df, timestamp, disk_ok) ==
    IF ~disk_ok THEN [raised |-> TRUE, file |-> f]
    ELSE [raised |-> FALSE,
          file |-> JsonFile({"faq_data", "last_update"}, to_dict_records(df), timestamp)]

\* The try block of load_data_from_file (lines 170-174): the pair it
\* returns, the fall through when the file does not exist, or an exception
load_try(f) ==
    IF f.kind = "absent" THEN [exc |-> FALSE, returned |-> FALSE]
    ELSE IF f.kind \in {"unreadable", "text"} THEN [exc |-> TRUE, returned |-> FALSE]
    ELSE IF "faq_data" \notin f.keys THEN [exc |-> TRUE, returned |-> FALSE]
    ELSE IF "last_update" \notin f.keys THEN [exc |-> TRUE, returned |-> FALSE]
    ELSE [exc |-> FALSE, returned |-> TRUE,
          df |-> from_records(f.faq_data), timestamp |-> f.last_update]

\* load_data_from_file without its except clause
load_data_from_file_uncaught(f) ==
    LET t == load_try(f)
    IN  IF t.exc THEN [raised |-> TRUE, df |-> None, timestamp |-> None]
        ELSE IF t.returned
            THEN [raised |-> FALSE, df |-> t.df, timestamp |-> t.timestamp]
        ELSE [raised |-> FALSE, df |-> None, timestamp |-> None]

\* load_data_from_file (lines 167-177): every exception is logged and the
\* function falls through to return None, None
load_data_from_file(f) ==
    LET t == load_try(f)
    IN  IF ~t.exc /\ t.returned
            THEN [raised |-> FALSE, df |-> t.df, timestamp |-> t.timestamp]
        ELSE [raised |-> FALSE, df |-> None, timestamp |-> None]

(***************************************************************************)
(* The inputs of the model.                                                *)
(***************************************************************************)
Txt_ab == <<"a", " ", "b">>
Txt_a_b == <<"a", " ", "\n", "b">>
Txt_x == <<" ", "x">>
Txt_y == <<"y", "\n">>

ItemShapes ==
    { [title |-> TitleNode(Txt_ab), content |-> ContentNode(<<Txt_x>>)],
      [title |-> TitleNode(Txt_a_b), content |-> ContentNode(<<Txt_x>>)],
      [title |-> TitleNode(Txt_ab), content |-> NoNode],
      [title |-> NoNode, content |-> ContentNode(<<Txt_x, Txt_y>>)] }

HeadingTexts == { <<"A">>, <<"\n", "B", " ">> }

SeqsUpTo(S, n) == UNION { [1..k -> S] : k \in 0..n }

Nodes ==
    { Heading(t) : t \in HeadingTexts }
        \cup { Accordion(items) : items \in SeqsUpTo(ItemShapes, MaxItems) }

Responses ==
    { Failed(st) : st \in Failures } \cup { Page(doc) : doc \in SeqsUpTo(Nodes, MaxNodes) }

Item_ab == [title |-> TitleNode(Txt_ab), content |-> ContentNode(<<Txt_x>>)]
Item_y == [title |-> TitleNode(Txt_ab), content |-> ContentNode(<<Txt_x, Txt_y>>)]
Item_untitled == [title |-> NoNode, content |-> ContentNode(<<Txt_x>>)]

\* The answers of the site the session is run against
PageSamples ==
    { Failed("timeout"), Failed("http_error"),
      Page(<<Heading(<<"A">>)>>),
      Page(<<Heading(<<"A">>), Accordion(<<Item_ab>>)>>),
      Page(<<Heading(<<"A">>), Accordion(<<Item_ab, Item_ab, Item_y>>)>>),
      Page(<<Heading(<<"A">>), Accordion(<<Item_ab, Item_untitled>>)>>) }

Row_stale == [Category |-> <<"A">>, Question |-> <<"q">>, Answer |-> <<"x">>]

\* What may be at data/faq_cache.json without this program having put it there
ExternalFiles ==
    { AbsentFile, UnreadableFile, TextFile,
      JsonFile({"faq_data"}, <<Row_stale>>, None),
      JsonFile({"last_update"}, <<>>, Timestamp(0)),
      JsonFile({"faq_data", "last_update"}, <<Row_stale>>, Timestamp(0)) }

(***************************************************************************)
(* The session.                                                            *)
(***************************************************************************)
Unset == [set |-> FALSE]
SessionState(df, timestamp) == [set |-> TRUE, faq_data |-> df, last_update |-> timestamp]

NotCalled == [kind |-> "NotCalled"]
NoLoad == [called |-> FALSE]
NoSave == [valid |-> FALSE]
Unseen == [network |-> "unseen", zero |-> "unseen"]

\* The cause of a refresh: the request failed, or the extraction succeeded
\* with zero rows
Cause(response, df) ==
    IF response.status # "ok" THEN "network"
    ELSE IF df # None /\ Len(df.rows) = 0 THEN "zero"
    ELSE "other"

Note(sh, cause, msg) ==
    IF cause = "network" THEN [sh EXCEPT !.network = msg]
    ELSE IF cause = "zero" THEN [sh EXCEPT !.zero = msg]
    ELSE sh

\* initialize_session_state (lines 179-194), as main calls it in a session
\* that holds neither key.  An exception of save_data_to_file leaves the
\* function before it sets the session state
initialize_session_state ==
    /\ ~session.set
    /\ \E disk_ok \in BOOLEAN :
        LET loaded == load_data_from_file(file)
            miss == loaded.df = None \/ loaded.timestamp = None
            df == IF miss THEN scrape_bospop_faq(web) ELSE loaded.df
            timestamp == IF miss THEN strftime(clock) ELSE loaded.timestamp
            saved == IF miss /\ df # None
                         THEN save_data_to_file(file, df, timestamp, disk_ok)
                     ELSE [raised |-> FALSE, file |-> file]
        IN  /\ lastLoad' = [called |-> TRUE, file |-> file, result |-> loaded]
            /\ scraped' = IF miss /\ ~loaded.raised THEN df ELSE scraped
            /\ IF loaded.raised
                   THEN /\ message' = "exception"
                        /\ UNCHANGED <<file, session, lastSaved>>
               ELSE IF saved.raised
                   THEN /\ message' = "exception"
                        /\ UNCHANGED <<file, session, lastSaved>>
               ELSE /\ message' = "none"
                    /\ file' = saved.file
                    /\ session' = SessionState(df, timestamp)
                    /\ lastSaved' = IF miss /\ df # None
                                        THEN [valid |-> TRUE, df |-> df, timestamp |-> timestamp]
                                    ELSE lastSaved
    /\ op' = "init"
    /\ UNCHANGED <<web, clock, shown>>

\* The refresh cleared faq_data when the scrape failed
refresh_clearing ==
    /\ session.set
    /\ \E disk_ok \in BOOLEAN :
        LET new_faq_df == scrape_bospop_faq(web)
            timestamp == strftime(clock)
        IN  /\ scraped' = new_faq_df
            /\ IF new_faq_df = None \/ Len(new_faq_df.rows) = 0
                   THEN /\ message' = "error_no_data"
                        /\ session' = SessionState(new_faq_df, session.last_update)
                        /\ UNCHANGED <<file, lastSaved>>
               ELSE LET saved == save_data_to_file(file, new_faq_df, timestamp, disk_ok)
                    IN  IF saved.raised
                            THEN /\ message' = "error_unexpected"
                                 /\ UNCHANGED <<file, session, lastSaved>>
                        ELSE /\ message' = "success"
                             /\ file' = saved.file
                             /\ session' = SessionState(new_faq_df, timestamp)
                             /\ lastSaved' = [valid |-> TRUE, df |-> new_faq_df,
                                              timestamp |-> timestamp]
            /\ shown' = Note(shown, Cause(web, new_faq_df), message')
    /\ op' = "refresh"
    /\ UNCHANGED <<web, clock, lastLoad>>

\* The "Update FAQ Data" button of main (lines 210-229)
refresh ==
    /\ session.set
    /\ \E disk_ok \in BOOLEAN :
        LET new_faq_df == scrape_bospop_faq(web)
            timestamp == strftime(clock)
        IN  /\ scraped' = new_faq_df
            /\ IF new_faq_df = None \/ Len(new_faq_df.rows) = 0
                   THEN /\ message' = "error_no_data"
                        /\ UNCHANGED <<file, session, lastSaved>>
               ELSE LET saved == save_data_to_file(file, new_faq_df, timestamp, disk_ok)
                    IN  IF saved.raised
                            THEN /\ message' = "error_unexpected"
                                 /\ UNCHANGED <<file, session, lastSaved>>
                        ELSE /\ message' = "success"
                             /\ file' = saved.file
                             /\ session' = SessionState(new_faq_df, timestamp)
                             /\ lastSaved' = [valid |-> TRUE, df |-> new_faq_df,
                                              timestamp |-> timestamp]
            /\ shown' = Note(shown, Cause(web, new_faq_df), message')
    /\ op' = "refresh"
    /\ UNCHANGED <<web, clock, lastLoad>>

\* A new browser session: st.session_state starts empty, the file stays
new_session ==
    /\ session.set
    /\ session' = Unset
    /\ message' = "none"
    /\ shown' = Unseen
    /\ op' = "new_session"
    /\ UNCHANGED <<web, scraped, file, clock, lastLoad, lastSaved>>

\* datetime.now() moves on
tick ==
    /\ clock < MaxClock
    /\ clock' = clock + 1
    /\ op' = "tick"
    /\ UNCHANGED <<web, scraped, file, session, message, shown, lastLoad, lastSaved>>

\* The site answers differently from now on
site_changes ==
    /\ \E r \in PageSamples : r # web /\ web' = r
    /\ op' = "site"
    /\ UNCHANGED <<scraped, file, session, clock, message, shown, lastLoad, lastSaved>>

\* The file is deleted, damaged or replaced from outside
file_changes ==
    /\ \E f \in ExternalFiles : f # file /\ file' = f
    /\ lastSaved' = NoSave
    /\ op' = "file"
    /\ UNCHANGED <<web, scraped, session, clock, message, shown, lastLoad>>

Init ==
    /\ web \in PageSamples
    /\ scraped = NotCalled
    /\ file \in ExternalFiles
    /\ session = Unset
    /\ clock = 0
    /\ message = "none"
    /\ op = "start"
    /\ shown = Unseen
    /\ lastLoad = NoLoad
    /\ lastSaved = NoSave

Next ==
    \/ initialize_session_state
    \/ refresh
    \/ new_session
    \/ tick
    \/ site_changes
    \/ file_changes

Spec == Init /\ [][Next]_vars

(***************************************************************************)
(* scrape_bospop_faq on its own, over every answer within the bounds.      *)
(***************************************************************************)
scrape ==
    /\ scraped' = scrape_bospop_faq(web)
    /\ op' = "scrape"
    /\ UNCHANGED <<web, file, session, clock, message, shown, lastLoad, lastSaved>>

InitScrape ==
    /\ web \in Responses
    /\ scraped = NotCalled
    /\ file = AbsentFile
    /\ session = Unset
    /\ clock = 0
    /\ message = "none"
    /\ op = "start"
    /\ shown = Unseen
    /\ lastLoad = NoLoad
    /\ lastSaved = NoSave

NextScrape == scrape

SpecScrape == InitScrape /\ [][NextScrape]_vars

(***************************************************************************)
(* The claims.                                                             *)
(***************************************************************************)

\* C1: the record set scrape_bospop_faq returns holds no record whose
\* question or answer is the empty string.
C1_NoEmptyQuestionOrAnswer ==
    (op = "scrape" /\ scraped.kind = "DataFrame") =>
        \A k \in 1..Len(scraped.rows) :
            scraped.rows[k].Question # <<>> /\ scraped.rows[k].Answer # <<>>

\* C2: the record set scrape_bospop_faq returns holds no two records equal
\* in all three fields; raw records that differ only in runs of whitespace
\* give one record.
C2_NoDuplicateRecords ==
    (op = "scrape" /\ scraped.kind = "DataFrame") =>
        \A j, k \in 1..Len(scraped.rows) :
            j < k => scraped.rows[j] # scraped.rows[k]

\* the document without the items that have no title node
RECURSIVE titled_items(_)
titled_items(items) ==
    IF items = <<>> THEN <<>>
    ELSE IF Head(items).title.present THEN <<Head(items)>> \o titled_items(Tail(items))
    ELSE titled_items(Tail(items))

titled_only(doc) ==
    [i \in 1..Len(doc) |->
        IF doc[i].tag = "accordion" THEN Accordion(titled_items(doc[i].items))
        ELSE doc[i]]

\* C3: an item with no title node is left out and nothing else is: the
\* scrape returns a record set, the one it returns for the document without
\* the untitled items.
C3_UntitledItemSkipped ==
    (op = "scrape" /\ web.status = "ok") =>
        /\ scraped.kind = "DataFrame"
        /\ scraped = scrape_bospop_faq(Page(titled_only(web.doc)))

\* the heading at i has a container before the next heading or the end
owns_container(doc, i) ==
    \E j \in (i + 1)..Len(doc) :
        /\ doc[j].tag = "accordion"
        /\ \A k \in (i + 1)..(j - 1) : doc[k].tag # "h2"

\* C4: a category heading with no accordion container before the next
\* heading (or the end of the document) contributes no record, and no
\* record carries its category.
C4_HeadingWithoutContainerYieldsNothing ==
    (op = "scrape" /\ web.status = "ok") =>
        \A i \in 1..Len(web.doc) :
            (web.doc[i].tag = "h2" /\ ~owns_container(web.doc, i)) =>
                /\ heading_rows(web.doc, i).rows = <<>>
                /\ (/\ scraped.kind = "DataFrame"
                    /\ \A j \in 1..Len(web.doc) :
                         (web.doc[j].tag = "h2" /\ owns_container(web.doc, j))
                             => strip(web.doc[j].text) # strip(web.doc[i].text))
                     => \A k \in 1..Len(scraped.rows) :
                            scraped.rows[k].Category # replace_ws(strip(web.doc[i].text))

NoData == [raised |-> FALSE, df |-> None, timestamp |-> None]

\* the file is absent, unreadable, no JSON, or JSON without one of the keys
bad_file(f) ==
    \/ f.kind \in {"absent", "unreadable", "text"}
    \/ f.kind = "json" /\ f.keys # {"faq_data", "last_update"}

\* C5: on a cache file that is absent, unreadable, not JSON or JSON that
\* lacks the records or the timestamp key, load_data_from_file returns
\* (None, None) and does not raise.
C5_LoadOfBadFileIsNoData ==
    (lastLoad.called /\ bad_file(lastLoad.file)) => lastLoad.result = NoData

C5_Witness ==
    /\ lastLoad.called
    /\ lastLoad.file.kind = "json"
    /\ lastLoad.file.keys = {"faq_data"}
    /\ lastLoad.result = NoData

C7_FailedRefreshChangesNothing ==
    [][ /\ (op' = "refresh" /\ scraped' = None)
            => (file' = file /\ session' = session)
        /\ (session.set /\ session'.set /\ session' # session)
            => /\ op' = "refresh"
               /\ message' = "success"
               /\ scraped'.kind = "DataFrame"
               /\ Len(scraped'.rows) > 0
               /\ session' = SessionState(scraped', strftime(clock))
               /\ lastSaved' = [valid |-> TRUE, df |-> scraped',
                                timestamp |-> strftime(clock)]
      ]_vars

C7_Witness ==
    /\ op = "refresh"
    /\ web.status # "ok"
    /\ scraped = None
    /\ message = "error_no_data"
    /\ session.set
    /\ session.faq_data.kind = "DataFrame"
    /\ Len(session.faq_data.rows) > 0
    /\ lastSaved.valid

\* C8: a refresh that extracts zero records and a refresh whose request
\* fails never show the user the same result.
C8_ZeroRecordsShownUnlikeNetworkFailure ==
    (shown.network # "unseen" /\ shown.zero # "unseen") => shown.network # shown.zero

\* C9: the session never holds a last_update timestamp while faq_data is
\* None.
C9_TimestampOnlyWithRecords ==
    (session.set /\ session.last_update # None) => session.faq_data # None

====
